---- MODULE Spec2Model ----
(***************************************************************************)
(* Model of src/yolo_detect.py: the conversion of the flat output of the   *)
(* YOLO network into labelled boxes (get_candidate_objects ->              *)
(* parse_yolo_output -> get_boxes, then filter, sort, suppress, collect).  *)
(*                                                                         *)
(* Numbers are exact rationals <<n, d>> in lowest terms with d > 0, and    *)
(* the three other values of a float: +infinity <<1, 0>>, -infinity        *)
(* <<-1, 0>> and NaN <<0, 0>>.  Zero has no sign.  Arrays keep             *)
(* the 0-based indices of the source: the flat buffer is a function on     *)
(* 0 .. len-1, the tensors are functions on index tuples.  The filtered    *)
(* arrays (one entry per candidate) are sequences; position k of a         *)
(* sequence is position k-1 of the numpy array.                            *)
(***************************************************************************)
EXTENDS Integers, Sequences, FiniteSets, TLC

VARIABLES
    pc,                    \* position in get_candidate_objects
    raw,                   \* the buffer as the caller handed it in (kept for reference)
    output,                \* the caller's buffer (numpy array, shared with the views)
    img_size,              \* <<height, width, channels>> (img.shape)
    boxes,                 \* boxes[BoxRank(<<row, col, b>>)] = <<x, y, w, h>>
    probs,                 \* probs[Rank(<<row, col, b, c>>)]
    origin,                \* auxiliary: per entry of the filtered arrays, the index
                           \* <<row, col, b, c>> of probs it was taken from
    sorted,                \* auxiliary: origin as it was right after the sort
    boxes_filtered,
    probs_filtered,
    classes_num_filtered,
    result,                \* the returned list
    err                    \* the exception that ended the call, or "none"

vars == <<pc, raw, output, img_size, boxes, probs, origin, sorted, boxes_filtered,
          probs_filtered, classes_num_filtered, result, err>>

(***************************************************************************)
(* Rational arithmetic.                                                    *)
(***************************************************************************)
Abs(n) == IF n < 0 THEN -n ELSE n

RECURSIVE GCD(_, _)
GCD(a, b) == IF b = 0 THEN a ELSE GCD(b, a % b)

Sgn(n) == IF n > 0 THEN 1 ELSE IF n < 0 THEN -1 ELSE 0

\* n/d as a value: lowest terms, and x/0 is an infinity of the sign of x, 0/0 NaN
Norm(n, d) ==
    IF d = 0 THEN <<Sgn(n), 0>>
    ELSE IF n = 0 THEN <<0, 1>>
    ELSE LET g == GCD(Abs(n), Abs(d))
             s == IF d < 0 THEN -1 ELSE 1
         IN  <<(s * n) \div g, (s * d) \div g>>

R(n, d) == Norm(n, d)
Zero == <<0, 1>>
NaN == <<0, 0>>
IsNaN(a) == a[1] = 0 /\ a[2] = 0

\* NaN + x = NaN, inf + (-inf) = NaN, inf + x = inf
Add(a, b) ==
    IF IsNaN(a) \/ IsNaN(b) THEN NaN
    ELSE IF a[2] = 0 /\ b[2] = 0 THEN (IF a[1] = b[1] THEN a ELSE NaN)
    ELSE IF a[2] = 0 THEN a
    ELSE IF b[2] = 0 THEN b
    ELSE Norm(a[1] * b[2] + b[1] * a[2], a[2] * b[2])
Neg(a) == <<-a[1], a[2]>>
Sub(a, b) == Add(a, Neg(b))
\* NaN * x = NaN, inf * 0 = NaN, inf * x = inf of the product's sign
Mul(a, b) == Norm(a[1] * b[1], a[2] * b[2])
\* float division of numpy scalars: x / 0 is an infinity (a warning, no
\* exception), 0 / 0 and inf / inf and anything with NaN are NaN, x / inf = 0
Div(a, b) ==
    IF a[2] = 0 /\ b[2] # 0 /\ b[1] < 0 THEN <<-a[1], 0>>
    ELSE Norm(a[1] * b[2], a[2] * b[1])
FromInt(n) == <<n, 1>>

\* comparisons: every comparison with NaN is false; the infinities are the
\* ends of the order
Gt(a, b) ==
    /\ ~IsNaN(a) /\ ~IsNaN(b)
    /\ IF a[2] = 0 /\ b[2] = 0 THEN a[1] > b[1] ELSE a[1] * b[2] > b[1] * a[2]
Ge(a, b) ==
    /\ ~IsNaN(a) /\ ~IsNaN(b)
    /\ IF a[2] = 0 /\ b[2] = 0 THEN a[1] >= b[1] ELSE a[1] * b[2] >= b[1] * a[2]
Le(a, b) == Ge(b, a)
\* min(a, b) and max(a, b) of Python: the first argument unless the second is
\* strictly smaller (larger)
RMin(a, b) == IF Gt(a, b) THEN b ELSE a
RMax(a, b) == IF Gt(b, a) THEN b ELSE a

(***************************************************************************)
(* Constants of the program.                                               *)
(***************************************************************************)
num_classes == 20
num_boxes == 2
grid_size == 7
GridDivisor == 7
threshold == R(1, 5)
iou_threshold == R(1, 2)
Half == R(1, 2)

classes == <<"aeroplane", "bicycle", "bird", "boat", "bottle", "bus", "car",
             "cat", "chair", "cow", "diningtable", "dog", "horse", "motorbike",
             "person", "pottedplant", "sheep", "sofa", "train", "tvmonitor">>

sc_offset == grid_size * grid_size * num_classes
box_offset == sc_offset + grid_size * grid_size * num_boxes
\* the length a buffer must have: the three regions
FullLen == box_offset + grid_size * grid_size * num_boxes * 4

BoxIdx == (0 .. grid_size - 1) \X (0 .. grid_size - 1) \X (0 .. num_boxes - 1)
ProbIdx == (0 .. grid_size - 1) \X (0 .. grid_size - 1) \X (0 .. num_boxes - 1)
               \X (0 .. num_classes - 1)
NumBoxEntries == grid_size * grid_size * num_boxes
NumProbEntries == grid_size * grid_size * num_boxes * num_classes

\* row-major (C order) flat positions of the three regions
ClassPos(row, col, c) == (row * grid_size + col) * num_classes + c
ConfPos(row, col, b) == sc_offset + (row * grid_size + col) * num_boxes + b
GeomPos(row, col, b, k) == box_offset + ((row * grid_size + col) * num_boxes + b) * 4 + k
\* The tensors are kept as numpy keeps them, flat in row-major order:
\* probs[Rank(<<row, col, b, c>>)] and boxes[BoxRank(<<row, col, b>>)].  Rank is
\* also the order in which np.nonzero and boolean indexing enumerate.
Rank(t) == ((t[1] * grid_size + t[2]) * num_boxes + t[3]) * num_classes + t[4]
BoxRank(t) == (t[1] * grid_size + t[2]) * num_boxes + t[3]
Unrank(n) == <<n \div (grid_size * num_boxes * num_classes),
               (n \div (num_boxes * num_classes)) % grid_size,
               (n \div num_classes) % num_boxes,
               n % num_classes>>

(***************************************************************************)
(* Inputs.  A buffer is zero except at a few entries: the class            *)
(* probabilities of classes 0 and 14 of cell (3,3) and of class 14 of the  *)
(* cells right of it, and the confidence and geometry of the first         *)
(* MaxBoxes boxes of those cells.                                          *)
(***************************************************************************)
MaxBoxes == 3      \* boxes with a non-zero confidence
MaxExtra == 1      \* how far a wrong buffer length is from the right one

\* the k-th of those boxes: (3,3,0), (3,3,1), (3,4,0), (3,4,1), ...
HotBox(k) == <<3, 3 + ((k - 1) \div num_boxes), (k - 1) % num_boxes>>
HotCols == {HotBox(k)[2] : k \in 1 .. MaxBoxes}

\* <<probability of class 0, of class 14>> in cell (3,3)
ClassChoices == {<<Zero, R(1, 1)>>, <<R(1, 1), R(2, 5)>>, <<R(2, 5), R(1, 1)>>}
\* probability of class 14 in the other cells
QV == {R(1, 5), R(1, 1)}
\* <<confidence, rx, rw = rh>> of a box (ry is 1/2)
BoxChoices == {<<R(1, 1), Zero, Half>>, <<Half, Half, Half>>, <<Half, Half, Zero>>}
Params == [cls : ClassChoices, q : QV, box : [1 .. MaxBoxes -> BoxChoices]]

HotPositions ==
    {ClassPos(3, 3, 0)}
    \cup {ClassPos(3, c, 14) : c \in HotCols}
    \cup {ConfPos(HotBox(k)[1], HotBox(k)[2], HotBox(k)[3]) : k \in 1 .. MaxBoxes}
    \cup {GeomPos(HotBox(k)[1], HotBox(k)[2], HotBox(k)[3], n) :
              k \in 1 .. MaxBoxes, n \in 0 .. 3}

HotValue(p, pos) ==
    IF pos = ClassPos(3, 3, 0) THEN p.cls[1]
    ELSE IF pos = ClassPos(3, 3, 14) THEN p.cls[2]
    ELSE IF pos < sc_offset THEN p.q
    ELSE IF pos < box_offset
         THEN LET k == CHOOSE k \in 1 .. MaxBoxes :
                           pos = ConfPos(HotBox(k)[1], HotBox(k)[2], HotBox(k)[3])
              IN  p.box[k][1]
    ELSE LET k == CHOOSE k \in 1 .. MaxBoxes :
                      \E n \in 0 .. 3 :
                          pos = GeomPos(HotBox(k)[1], HotBox(k)[2], HotBox(k)[3], n)
             n == (pos - box_offset) % 4
         IN  IF n = 0 THEN p.box[k][2]
             ELSE IF n = 1 THEN Half
             ELSE p.box[k][3]

Buffer(p) == [k \in 0 .. FullLen - 1 |-> IF k \in HotPositions THEN HotValue(p, k) ELSE Zero]
Resize(buf, len) == [k \in 0 .. len - 1 |-> IF k < FullLen THEN buf[k] ELSE Zero]

\* the scenario of the specification: one box of class 14 in cell (3,3)
ExampleBuffer ==
    [k \in 0 .. FullLen - 1 |->
        IF k = ClassPos(3, 3, 14) \/ k = ConfPos(3, 3, 0) THEN R(1, 1)
        ELSE IF k = GeomPos(3, 3, 0, 0) \/ k = GeomPos(3, 3, 0, 1) THEN Half
        ELSE IF k = GeomPos(3, 3, 0, 2) \/ k = GeomPos(3, 3, 0, 3) THEN R(1, 10)
        ELSE Zero]

WrongLens == {FullLen + d : d \in (-MaxExtra .. MaxExtra) \ {0}}
                 \cup {0, sc_offset, box_offset}

Inputs ==
    {[buf |-> Buffer(p), img |-> <<350, 700, 3>>] : p \in Params}
    \cup {[buf |-> ExampleBuffer, img |-> <<700, 700, 3>>]}
    \cup {[buf |-> Resize(ExampleBuffer, n), img |-> <<700, 700, 3>>] : n \in WrongLens}

Init ==
    /\ \E in \in Inputs :
           /\ raw = in.buf
           /\ output = in.buf
           /\ img_size = in.img
    /\ pc = "start"
    /\ boxes = <<>>
    /\ probs = <<>>
    /\ origin = <<>>
    /\ sorted = <<>>
    /\ boxes_filtered = <<>>
    /\ probs_filtered = <<>>
    /\ classes_num_filtered = <<>>
    /\ result = <<>>
    /\ err = "none"

(***************************************************************************)
(* get_boxes and parse_yolo_output.                                        *)
(***************************************************************************)
BufLen(out) == Cardinality(DOMAIN out)
\* len(out[a:b]) of a numpy slice: both ends are clipped to the array
SliceLen(len, a, b) ==
    LET lo == IF a < len THEN a ELSE len
        hi == IF b < len THEN b ELSE len
    IN  IF hi > lo THEN hi - lo ELSE 0

\* a reshape that takes what it needs of a longer array
ReshapeAtLeast(n, size) == n >= size
\* np.reshape raises ValueError unless the sizes agree
ReshapeOk(n, size) == n = size

\* the offsets with the two grid axes exchanged
OffsetSwapped(row, col, b) == row
\* np.tile(np.arange(grid_size)[:, np.newaxis], (grid_size, 1, num_boxes))[row, col, b]:
\* the (7,1) column is promoted to (1,7,1) and repeated, so the entry is the
\* second index
Offset(row, col, b) == col
\* np.transpose(offset, (1, 0, 2))[row, col, b]
OffsetT(row, col, b) == Offset(col, row, b)

w_img == img_size[2]
h_img == img_size[1]

\* the entry [row, col, b, k] of the view after lines 33-40, from the view before
GetBoxesEntry(out, row, col, b, k) ==
    LET v == out[GeomPos(row, col, b, k)]
    IN  IF k = 0 THEN Mul(Div(Add(v, FromInt(Offset(row, col, b))), FromInt(GridDivisor)),
                          FromInt(w_img))
        ELSE IF k = 1 THEN Mul(Div(Add(v, FromInt(OffsetT(row, col, b))), FromInt(GridDivisor)),
                               FromInt(h_img))
        ELSE IF k = 2 THEN Mul(Mul(v, v), FromInt(w_img))
        ELSE Mul(Mul(v, v), FromInt(h_img))

\* the buffer after get_boxes: boxes is a view of output[box_offset:], which is
\* a view of output, so the in-place updates land in the caller's array
GetBoxesBuffer(out) ==
    [pos \in DOMAIN out |->
        IF pos >= box_offset /\ pos < FullLen
        THEN LET n == pos - box_offset
                 k == n % 4
                 b == (n \div 4) % num_boxes
                 col == (n \div (4 * num_boxes)) % grid_size
                 row == n \div (4 * num_boxes * grid_size)
             IN  GetBoxesEntry(out, row, col, b, k)
        ELSE out[pos]]

BoxesView(out) ==
    [n \in 0 .. NumBoxEntries - 1 |->
        <<out[box_offset + 4 * n], out[box_offset + 4 * n + 1],
          out[box_offset + 4 * n + 2], out[box_offset + 4 * n + 3]>>]

\* probs[:, :, i, j] = class_probs[:, :, j] * confidences[:, :, i]
Fuse(out) ==
    [n \in 0 .. NumProbEntries - 1 |->
        LET t == Unrank(n)
        IN  Mul(out[ClassPos(t[1], t[2], t[4])], out[ConfPos(t[1], t[2], t[3])])]

ShapesOk(len) ==
    /\ ReshapeOk(SliceLen(len, 0, sc_offset), grid_size * grid_size * num_classes)
    /\ ReshapeOk(SliceLen(len, sc_offset, box_offset), grid_size * grid_size * num_boxes)
    /\ ReshapeOk(SliceLen(len, box_offset, len), grid_size * grid_size * num_boxes * 4)

ParseOk ==
    /\ pc = "start"
    /\ ShapesOk(BufLen(output))
    /\ probs' = Fuse(output)
    /\ output' = GetBoxesBuffer(output)
    /\ boxes' = BoxesView(output')
    /\ pc' = "parsed"
    /\ UNCHANGED <<raw, img_size, origin, sorted, boxes_filtered, probs_filtered,
                   classes_num_filtered, result, err>>

ParseFail ==
    /\ pc = "start"
    /\ ~ShapesOk(BufLen(output))
    /\ pc' = "error"
    /\ err' = "ValueError"
    /\ UNCHANGED <<raw, output, img_size, boxes, probs, origin, sorted, boxes_filtered,
                   probs_filtered, classes_num_filtered, result>>

(***************************************************************************)
(* get_candidate_objects: filter, sort, suppress, collect.                 *)
(***************************************************************************)
\* a strict comparison
PassesStrict(p) == Gt(p, threshold)
\* probs >= threshold
PassesThreshold(p) == Ge(p, threshold)

RECURSIVE AscSeq(_)
AscSeq(S) ==
    IF S = {} THEN <<>>
    ELSE LET m == CHOOSE m \in S : \A n \in S : m <= n
         IN  <<m>> \o AscSeq(S \ {m})

\* np.nonzero(filter_mat_probs), as flat ranks in row-major order
NonZero(p) == AscSeq({n \in 0 .. NumProbEntries - 1 : PassesThreshold(p[n])})

\* np.argmax(filter_mat_probs, axis=3)[row, col, b]: the first class whose
\* entry is True (0 when none is)
ArgMaxClass(p, row, col, b) ==
    LET hit == {c \in 0 .. num_classes - 1 : PassesThreshold(p[Rank(<<row, col, b, c>>)])}
    IN  IF hit = {} THEN 0 ELSE CHOOSE c \in hit : \A d \in hit : c <= d

Filter ==
    /\ pc = "parsed"
    /\ \E nz \in {NonZero(probs)} :
           /\ origin' = [k \in 1 .. Len(nz) |-> Unrank(nz[k])]
           /\ boxes_filtered' = [k \in 1 .. Len(nz) |-> boxes[nz[k] \div num_classes]]
           /\ probs_filtered' = [k \in 1 .. Len(nz) |-> probs[nz[k]]]
           /\ classes_num_filtered' =
                  [k \in 1 .. Len(nz) |->
                      ArgMaxClass(probs, origin'[k][1], origin'[k][2], origin'[k][3])]
    /\ pc' = "filtered"
    /\ UNCHANGED <<raw, output, img_size, boxes, probs, sorted, result, err>>

\* np.argsort(p): an index order that puts p in ascending order.  The default
\* kind is quicksort, which is not stable: equal entries come out in an order
\* the library and its build choose.
RECURSIVE AscOrders(_, _)
AscOrders(p, S) ==
    IF S = {} THEN {<<>>}
    ELSE LET mins == {k \in S : \A m \in S : Le(p[k], p[m])}
         IN  UNION {{<<k>> \o rest : rest \in AscOrders(p, S \ {k})} : k \in mins}
ArgSorts(p) == AscOrders(p, DOMAIN p)

\* the order left as argsort gave it
NotReversed(s) == s
\* s[::-1]
Reversed(s) == [k \in 1 .. Len(s) |-> s[Len(s) + 1 - k]]

Take(a, idx) == [k \in 1 .. Len(idx) |-> a[idx[k]]]

Sort ==
    /\ pc = "filtered"
    /\ \E asc \in ArgSorts(probs_filtered) :
           \E idx \in {Reversed(asc)} :
               /\ boxes_filtered' = Take(boxes_filtered, idx)
               /\ probs_filtered' = Take(probs_filtered, idx)
               /\ classes_num_filtered' = Take(classes_num_filtered, idx)
               /\ origin' = Take(origin, idx)
               /\ sorted' = Take(origin, idx)
    /\ pc' = "sorted"
    /\ UNCHANGED <<raw, output, img_size, boxes, probs, result, err>>

Intersection(box1, box2) ==
    LET int_tb == Sub(RMin(Add(box1[1], Mul(Half, box1[3])), Add(box2[1], Mul(Half, box2[3]))),
                      RMax(Sub(box1[1], Mul(Half, box1[3])), Sub(box2[1], Mul(Half, box2[3]))))
        int_lr == Sub(RMin(Add(box1[2], Mul(Half, box1[4])), Add(box2[2], Mul(Half, box2[4]))),
                      RMax(Sub(box1[2], Mul(Half, box1[4])), Sub(box2[2], Mul(Half, box2[4]))))
    IN  Mul(RMax(Zero, int_tb), RMax(Zero, int_lr))

\* the divisor of line 120
Union(box1, box2) ==
    Sub(Add(Mul(box1[3], box1[4]), Mul(box2[3], box2[4])), Intersection(box1, box2))

iou(box1, box2) == Div(Intersection(box1, box2), Union(box1, box2))

\* iou(...) > iou_threshold
Overlaps(box1, box2) == Gt(iou(box1, box2), iou_threshold)

\* probs_filtered[i] == 0
IsZeroed(p) == p = Zero

\* the inner loop of candidate i: every later candidate that overlaps it is zeroed
Scan(p, bxs, i) ==
    [j \in 1 .. Len(p) |-> IF j > i /\ Overlaps(bxs[i], bxs[j]) THEN Zero ELSE p[j]]

\* the outer loop from candidate i on: a zeroed candidate is passed over
RECURSIVE Nms(_, _, _)
Nms(p, bxs, i) ==
    IF i > Len(p) THEN p
    ELSE IF IsZeroed(p[i]) THEN Nms(p, bxs, i + 1)
    ELSE Nms(Scan(p, bxs, i), bxs, i + 1)

Suppress ==
    /\ pc = "sorted"
    /\ probs_filtered' = Nms(probs_filtered, boxes_filtered, 1)
    /\ pc' = "suppressed"
    /\ UNCHANGED <<raw, output, img_size, boxes, probs, origin, sorted, boxes_filtered,
                   classes_num_filtered, result, err>>

\* >= 0.0 in place of > 0.0
FilterIouNonNeg(p) == Ge(p, Zero)
\* probs_filtered > 0.0
FilterIou(p) == Gt(p, Zero)

RECURSIVE KeptFrom(_, _)
KeptFrom(p, k) ==
    IF k > Len(p) THEN <<>>
    ELSE IF FilterIou(p[k]) THEN <<k>> \o KeptFrom(p, k + 1)
    ELSE KeptFrom(p, k + 1)
\* the positions a boolean mask keeps, in order
Kept(p) == KeptFrom(p, 1)

Detection(class_id, box, prob) ==
    [label |-> classes[class_id + 1], x |-> box[1], y |-> box[2],
     w |-> box[3], h |-> box[4], score |-> prob]

Collect ==
    /\ pc = "suppressed"
    /\ \E keep \in {Kept(probs_filtered)} :
           /\ boxes_filtered' = Take(boxes_filtered, keep)
           /\ probs_filtered' = Take(probs_filtered, keep)
           /\ classes_num_filtered' = Take(classes_num_filtered, keep)
           /\ origin' = Take(origin, keep)
    /\ result' = [k \in 1 .. Len(probs_filtered') |->
                     Detection(classes_num_filtered'[k], boxes_filtered'[k], probs_filtered'[k])]
    /\ pc' = "done"
    /\ UNCHANGED <<raw, output, img_size, boxes, probs, sorted, err>>

Next == ParseOk \/ ParseFail \/ Filter \/ Sort \/ Suppress \/ Collect

Spec == Init /\ [][Next]_vars

(***************************************************************************)
(* Quantities the claims are stated in.                                    *)
(***************************************************************************)
\* the fused score of entry t, from the buffer as the caller handed it in
RawScore(t) == Mul(raw[ClassPos(t[1], t[2], t[4])], raw[ConfPos(t[1], t[2], t[3])])
\* the box of entry t: cx = (rx + col)/S * width, cy = (ry + row)/S * height,
\* w = rw^2 * width, h = rh^2 * height
RawBox(t) ==
    LET rx == raw[GeomPos(t[1], t[2], t[3], 0)]
        ry == raw[GeomPos(t[1], t[2], t[3], 1)]
        rw == raw[GeomPos(t[1], t[2], t[3], 2)]
        rh == raw[GeomPos(t[1], t[2], t[3], 3)]
        width == FromInt(img_size[2])
        height == FromInt(img_size[1])
    IN  <<Mul(Div(Add(rx, FromInt(t[2])), FromInt(grid_size)), width),
          Mul(Div(Add(ry, FromInt(t[1])), FromInt(grid_size)), height),
          Mul(Mul(rw, rw), width),
          Mul(Mul(rh, rh), height)>>

\* the sorted candidate list before suppression, and the returned list, as
\* <<box, score>> pairs
SortedVals == [k \in 1 .. Len(sorted) |-> <<boxes[BoxRank(sorted[k])], probs[Rank(sorted[k])]>>]
ResultVals ==
    [k \in 1 .. Len(result) |->
        <<<<result[k].x, result[k].y, result[k].w, result[k].h>>, result[k].score>>]

RECURSIVE IsSubseqFrom(_, _, _, _)
IsSubseqFrom(s, t, a, b) ==
    IF a > Len(s) THEN TRUE
    ELSE IF b > Len(t) THEN FALSE
    ELSE IF s[a] = t[b] THEN IsSubseqFrom(s, t, a + 1, b + 1)
    ELSE IsSubseqFrom(s, t, a, b + 1)
IsSubseq(s, t) == IsSubseqFrom(s, t, 1, 1)

\* the greedy rule on the sorted list: going through the positions in order,
\* position k stands iff no earlier position that stands has a box with
\* IoU > iou_threshold with it
RECURSIVE StandingFrom(_, _)
StandingFrom(k, acc) ==
    IF k > Len(sorted) THEN acc
    ELSE IF \E a \in acc : Gt(iou(boxes[BoxRank(sorted[a])], boxes[BoxRank(sorted[k])]),
                              iou_threshold)
         THEN StandingFrom(k + 1, acc)
         ELSE StandingFrom(k + 1, acc \cup {k})
Standing == StandingFrom(1, {})

(***************************************************************************)
(* C1: every returned detection has the label of the class index c of the  *)
(* entry (row,col,b,c) it was filtered from, and that entry's score.       *)
(* The code takes the class from argmax over the class axis, which is the  *)
(* first class of (row,col,b) that passed, so this fails.                  *)
(***************************************************************************)
C1_LabelOfSourceClass ==
    pc = "done" =>
        \A k \in 1 .. Len(result) :
            /\ result[k].label = classes[origin[k][4] + 1]
            /\ result[k].score = RawScore(origin[k])

(***************************************************************************)
(* C2: candidates with equal score stay in enumeration order (row-major    *)
(* rank) after the sort, so of two candidates with equal score and         *)
(* IoU > iou_threshold the one enumerated first is returned.  The code     *)
(* reverses an unstable ascending argsort, so this fails.                  *)
(***************************************************************************)
C2_TiesKeepEnumerationOrder ==
    /\ pc = "sorted" =>
           \A a, b \in 1 .. Len(sorted) :
               (a < b /\ probs_filtered[a] = probs_filtered[b])
                   => Rank(sorted[a]) < Rank(sorted[b])
    /\ (pc = "suppressed" /\ Len(sorted) = 2) =>
           \A a, b \in 1 .. 2 :
               (/\ Rank(sorted[a]) < Rank(sorted[b])
                /\ RawScore(sorted[a]) = RawScore(sorted[b])
                /\ Gt(iou(boxes_filtered[a], boxes_filtered[b]), iou_threshold))
                   => (probs_filtered[a] # Zero /\ probs_filtered[b] = Zero)

(***************************************************************************)
(* C3: the call leaves every element of the caller's buffer as it was.     *)
(* get_boxes updates a view of the buffer in place, so this fails.         *)
(***************************************************************************)
C3_BufferUnchanged == pc = "done" => output = raw

(***************************************************************************)
(* C4: for every cell (row,col) and box b, get_boxes yields                *)
(* cx = (rx + col)/S * width, cy = (ry + row)/S * height, w = rw*rw*width, *)
(* h = rh*rh*height with width = img_size[1], height = img_size[0]; and    *)
(* raw (0.5,0.5,0.1,0.1) at row 3, col 3 on 700x700 gives (350,350,7,7).   *)
(***************************************************************************)
C4_BoxGeometry ==
    pc = "parsed" =>
        /\ \A t \in BoxIdx : boxes[BoxRank(t)] = RawBox(t)
        /\ (raw = ExampleBuffer /\ img_size = <<700, 700, 3>>)
               => boxes[BoxRank(<<3, 3, 0>>)] = <<R(350, 1), R(350, 1), R(7, 1), R(7, 1)>>

\* a parsed buffer with a non-zero x and y in a box of a cell with row # col,
\* on an image that is not square; the example is a state of its own
C4_Witness ==
    /\ pc = "parsed"
    /\ img_size[1] # img_size[2]
    /\ raw[GeomPos(3, 4, 0, 0)] = Half
    /\ boxes[BoxRank(<<3, 4, 0>>)] = <<R(450, 1), R(175, 1), R(175, 1), R(175, 2)>>

(***************************************************************************)
(* C5: the returned list is sorted by score, non-increasing.               *)
(***************************************************************************)
C5_ScoresNonIncreasing ==
    pc = "done" =>
        \A a, b \in 1 .. Len(result) : a < b => Ge(result[a].score, result[b].score)

\* three detections returned, not all of one score
C5_Witness ==
    /\ pc = "done"
    /\ Len(result) >= 3
    /\ Gt(result[1].score, result[Len(result)].score)

(***************************************************************************)
(* C6: suppression only removes entries: the returned list is a            *)
(* sub-sequence of the sorted candidate list, no longer than it, and each  *)
(* returned detection has the box and the score of its candidate.          *)
(***************************************************************************)
C6_ResultIsSubsequence ==
    pc = "done" =>
        /\ Len(result) <= Len(sorted)
        /\ IsSubseq(ResultVals, SortedVals)

\* some candidates were removed, some were kept, and a removed one lies
\* between two kept ones
C6_Witness ==
    /\ pc = "done"
    /\ Len(result) >= 2
    /\ Len(result) < Len(sorted)
    /\ \E k \in 2 .. Len(sorted) - 1 :
           /\ sorted[k] \notin {origin[m] : m \in 1 .. Len(origin)}
           /\ sorted[1] = origin[1]
           /\ sorted[Len(sorted)] = origin[Len(origin)]

(***************************************************************************)
(* C7: iou never returns a value for two boxes whose union is zero: the    *)
(* call fails with DegenerateBox.  The code divides 0 by 0, gets NaN,      *)
(* finds NaN > 0.5 false and goes on, so this fails.                       *)
(***************************************************************************)
C7_DegenerateBoxRaises ==
    pc \in {"suppressed", "done"} =>
        \A a, b \in 1 .. Len(sorted) :
            (a < b /\ a \in Standing)
                => Union(boxes[BoxRank(sorted[a])], boxes[BoxRank(sorted[b])]) # Zero

(***************************************************************************)
(* C8: decoding goes through iff the buffer has exactly                    *)
(* S*S*C + S*S*B + S*S*B*4 elements; a shorter or longer buffer ends in    *)
(* the shape error of reshape, with nothing decoded and nothing returned.  *)
(***************************************************************************)
C8_LengthChecked ==
    pc # "start" =>
        /\ (pc = "error") <=> (BufLen(raw) # grid_size * grid_size * num_classes
                                   + grid_size * grid_size * num_boxes
                                   + grid_size * grid_size * num_boxes * 4)
        /\ pc = "error" =>
               /\ err = "ValueError"
               /\ result = <<>>
               /\ boxes = <<>>
               /\ probs = <<>>
               /\ output = raw
        /\ pc # "error" => err = "none"

\* a buffer one element too long was refused
C8_Witness ==
    /\ pc = "error"
    /\ BufLen(raw) = 1471

(***************************************************************************)
(* C9: an entry (row,col,b,c) becomes a candidate iff its fused score      *)
(* class_probs[row,col,c] * confidences[row,col,b] is >= threshold (a      *)
(* score equal to threshold is kept), and a candidate is dropped later     *)
(* only by IoU suppression.                                                *)
(***************************************************************************)
C9_ThresholdInclusive ==
    /\ pc = "filtered" =>
           /\ {origin[k] : k \in 1 .. Len(origin)}
                  = {t \in ProbIdx : Ge(RawScore(t), R(1, 5))}
           /\ Len(origin) = Cardinality({origin[k] : k \in 1 .. Len(origin)})
           /\ \A k \in 1 .. Len(origin) : probs_filtered[k] = RawScore(origin[k])
    /\ pc = "done" =>
           /\ Len(result) = Len(origin)
           /\ \E returned \in {{origin[m] : m \in 1 .. Len(origin)}} :
                  \A k \in 1 .. Len(sorted) :
                      sorted[k] \notin returned
                          => \E a \in 1 .. k - 1 :
                                 /\ sorted[a] \in returned
                                 /\ Gt(iou(boxes[BoxRank(sorted[a])], boxes[BoxRank(sorted[k])]),
                                       iou_threshold)

\* a candidate whose score equals the threshold is returned, while an entry
\* with a smaller positive score was not taken
C9_Witness ==
    /\ pc = "done"
    /\ \E k \in 1 .. Len(result) : result[k].score = R(1, 5)
    /\ \E t \in ProbIdx :
           /\ Gt(RawScore(t), Zero)
           /\ Gt(R(1, 5), RawScore(t))
           /\ t \notin {sorted[m] : m \in 1 .. Len(sorted)}

(***************************************************************************)
(* C10: in sorted order, candidate j is removed iff an earlier candidate   *)
(* that itself stands has IoU > iou_threshold with it, whatever the        *)
(* classes; a removed candidate removes nothing.  So the first candidate   *)
(* stands, and any two returned boxes have IoU <= iou_threshold.  The      *)
(* greedy rule and the first candidate hold; the last part fails: two      *)
(* returned boxes of zero area have the IoU 0/0 = NaN of C7, and           *)
(* NaN <= iou_threshold is false.                                          *)
(***************************************************************************)
C10_GreedySuppression ==
    /\ pc = "suppressed" =>
           /\ \A j \in 1 .. Len(sorted) :
                  (probs_filtered[j] = Zero)
                      <=> \E a \in 1 .. j - 1 :
                              /\ probs_filtered[a] # Zero
                              /\ Gt(iou(boxes_filtered[a], boxes_filtered[j]), iou_threshold)
           /\ Len(sorted) >= 1 => probs_filtered[1] # Zero
           /\ {j \in 1 .. Len(sorted) : probs_filtered[j] # Zero} = Standing
    /\ pc = "done" =>
           /\ \E st \in {AscSeq(Standing)} :
                  origin = [k \in 1 .. Len(st) |-> sorted[st[k]]]
           /\ Len(result) = Len(origin)
           /\ Len(sorted) >= 1 => (Len(result) >= 1 /\ origin[1] = sorted[1])
           /\ \A a, b \in 1 .. Len(result) :
                  a < b => Le(iou(<<result[a].x, result[a].y, result[a].w, result[a].h>>,
                                  <<result[b].x, result[b].y, result[b].w, result[b].h>>),
                              iou_threshold)

====
